---- MODULE Spec2Model ----
(***************************************************************************)
(* A model of mjhouse/aister: the single-layer Network of src/lib.rs       *)
(* (new / train / think) and the Activation implementations of             *)
(* src/activation.rs.                                                      *)
(*                                                                         *)
(* f64 values are modelled as fixed-point integers: the integer n stands   *)
(* for the real number n / One.  Products and quotients are rounded to the *)
(* nearest representable value, as f64 arithmetic rounds its results.      *)
(***************************************************************************)
EXTENDS Integers, Sequences, FiniteSets, TLC

VARIABLES weights, size, training_inputs, training_outputs,
          lastOp, prevThink, run, calls,
          variant, param, orig, buf, prevBuf, ops

netVars == <<weights, size, training_inputs, training_outputs,
             lastOp, prevThink, run, calls>>
actVars == <<variant, param, orig, buf, prevBuf, ops>>
vars == <<weights, size, training_inputs, training_outputs,
          lastOp, prevThink, run, calls,
          variant, param, orig, buf, prevBuf, ops>>

(***************************************************************************)
(* Bounds of the model.                                                    *)
(***************************************************************************)
MaxSize == 2
MaxExamples == 2
MaxIter == 2
MaxCalls == 2
MaxBuf == 2
MaxOps == 2
MaxMagnitude == 6
ExpCap == 12
TaylorTerms == 8

\* Input vectors have 0..MaxLen elements: fewer than, as many as, or (for a
\* unit of fewer than MaxSize weights) more than the weight vector.
MaxLen == MaxSize

(***************************************************************************)
(* Fixed-point arithmetic standing for f64.                                *)
(***************************************************************************)
One == 1000
Half == One \div 2
Hundredth == One \div 100
EConst == 2718

\* A value outside the modelled range of f64: not a finite number (the
\* result of a division by zero), or of a magnitude the model does not
\* follow.
OutOfRange == 999999999

Min(a, b) == IF a < b THEN a ELSE b

\* n / d rounded to the nearest integer, d > 0.
RoundDiv(n, d) == (n + d \div 2) \div d

\* a * b
Mul(a, b) ==
    LET q == a \div One
        r == a % One
    IN  q * b + RoundDiv(r * b, One)

\* a / b, b # 0
Div(a, b) == IF b < 0 THEN RoundDiv((0 - a) * One, 0 - b) ELSE RoundDiv(a * One, b)

\* e^k for a natural number k
RECURSIVE PowE(_)
PowE(k) == IF k = 0 THEN One ELSE Mul(PowE(k - 1), EConst)

\* the n-th term of the series of e^r, 0 <= r < One
RECURSIVE ExpTerm(_, _)
ExpTerm(r, n) == IF n = 0 THEN One ELSE RoundDiv(ExpTerm(r, n - 1) * r, One * n)

RECURSIVE ExpSeries(_, _)
ExpSeries(r, n) == IF n = 0 THEN ExpTerm(r, 0) ELSE ExpSeries(r, n - 1) + ExpTerm(r, n)

\* e^y for y >= 0; saturates above ExpCap
ExpPos(y) ==
    IF y >= ExpCap * One THEN PowE(ExpCap)
    ELSE Mul(PowE(y \div One), ExpSeries(y % One, TaylorTerms))

\* E.powf(y), f64::exp(y)
Exp(y) == IF y >= 0 THEN ExpPos(y) ELSE Div(One, ExpPos(0 - y))

(***************************************************************************)
(* Network (src/lib.rs).                                                   *)
(***************************************************************************)

\* Network::__sigmoid
Sigmoid(x) == Div(One, One + Exp(0 - x))

\* Network::__sigmoid_derivative
SigmoidDerivative(x) == Mul(x, One - x)

\* Network::__sigmoid_derivatives
SigmoidDerivatives(x) == [i \in 1..Len(x) |-> SigmoidDerivative(x[i])]

\* The sum of the first n products of a zip of a and b.
RECURSIVE DotUpTo(_, _, _)
DotUpTo(a, b, n) == IF n = 0 THEN 0 ELSE DotUpTo(a, b, n - 1) + Mul(a[n], b[n])

\* Network::__dot_product: zip stops at the shorter of the two vectors.
DotProduct(a, b) == DotUpTo(a, b, Min(Len(a), Len(b)))

\* Network::__transpose indexes v[0] and then inner[i] for every i < v[0].len():
\* it panics on an empty v and on an inner vector shorter than the first one.
TransposePanics(v) == Len(v) = 0 \/ \E k \in 1..Len(v) : Len(v[k]) < Len(v[1])

\* Network::__transpose, when it does not panic
Transpose(v) == [j \in 1..Len(v[1]) |-> [i \in 1..Len(v) |-> v[i][j]]]

\* Network::__calculate_errors
CalculateErrors(a, b) == [i \in 1..Min(Len(a), Len(b)) |-> Mul(a[i], b[i])]

\* Network::think
Think(w, inputs) == Sigmoid(DotProduct(w, inputs))

\* TrainRound with the adjustment scaled by a learning rate of one half.
TrainRound_Scaled(w, ins, outs) ==
    LET output == [i \in 1..Len(ins) |-> Sigmoid(DotProduct(w, ins[i]))]
        error == [i \in 1..Min(Len(outs), Len(output)) |-> outs[i] - output[i]]
        difference_values == SigmoidDerivatives(output)
    IN  IF TransposePanics(ins)
        THEN [panic |-> TRUE, weights |-> w]
        ELSE LET transposed_inputs == Transpose(ins)
                 calculated_errors == CalculateErrors(error, difference_values)
                 adjustment == [j \in 1..Len(transposed_inputs) |->
                                   DotProduct(transposed_inputs[j], calculated_errors)]
             IN  [panic |-> FALSE,
                  weights |-> [j \in 1..Min(Len(w), Len(adjustment)) |->
                                  w[j] + Mul(Half, adjustment[j])]]

\* One pass of the loop body of Network::train on weights w.
TrainRound(w, ins, outs) ==
    LET output == [i \in 1..Len(ins) |-> Think(w, ins[i])]
        error == [i \in 1..Min(Len(outs), Len(output)) |-> outs[i] - output[i]]
        difference_values == SigmoidDerivatives(output)
    IN  IF TransposePanics(ins)
        THEN [panic |-> TRUE, weights |-> w]
        ELSE LET transposed_inputs == Transpose(ins)
                 calculated_errors == CalculateErrors(error, difference_values)
                 adjustment == [j \in 1..Len(transposed_inputs) |->
                                   DotProduct(transposed_inputs[j], calculated_errors)]
             IN  [panic |-> FALSE,
                  weights |-> [j \in 1..Min(Len(w), Len(adjustment)) |->
                                  w[j] + adjustment[j]]]

\* The loop of Network::train.
RECURSIVE Rounds(_, _, _, _)
Rounds(w, ins, outs, n) ==
    IF n = 0
    THEN [panic |-> FALSE, weights |-> w]
    ELSE LET r == TrainRound(w, ins, outs)
         IN  IF r.panic THEN r ELSE Rounds(r.weights, ins, outs, n - 1)

\* train with the loop written `0..=iterations`: one round too many.
Train_Inclusive(w, ins, outs, iterations) == Rounds(w, ins, outs, iterations + 1)

\* train that starts every call that runs a round from zeroed weights.
Train_Restarts(w, ins, outs, iterations) ==
    IF iterations = 0
    THEN Rounds(w, ins, outs, 0)
    ELSE Rounds([j \in 1..Len(w) |-> 0], ins, outs, iterations)

\* Network::train: `for _ in 0..iterations`, left by a panic of the body.
Train(w, ins, outs, iterations) == Rounds(w, ins, outs, iterations)

(***************************************************************************)
(* Arguments of the calls.                                                 *)
(***************************************************************************)
SeqsUpTo(S, n) == UNION {[1..k -> S] : k \in 0..n}

\* rng.gen::<f64>() draws from [0, 1)
InitWeightValues == {0, Half}
InputValues == {0, One}
TargetValues == {0, One}

Vectors == SeqsUpTo(InputValues, MaxLen)
InputSets == SeqsUpTo(Vectors, MaxExamples)
TargetSets == SeqsUpTo(TargetValues, MaxExamples)

NoThink == [valid |-> FALSE, input |-> <<>>, result |-> 0]

(***************************************************************************)
(* The Network and its caller as a state machine.  The caller builds its   *)
(* training set once, as the test it_works does, and then calls train and  *)
(* think.  lastOp records the last call, its arguments, the weights it     *)
(* found and what it returned; prevThink the call before it when that was  *)
(* a think; run the weights at construction and the rounds all train calls *)
(* asked for in total.                                                     *)
(***************************************************************************)

\* Network::new(size), and the caller's training_set_inputs / _outputs
NetInit ==
    /\ size \in 1..MaxSize
    /\ weights \in [1..size -> InitWeightValues]
    /\ training_inputs \in InputSets
    /\ training_outputs \in TargetSets
    /\ lastOp = [op |-> "new", input |-> <<>>, iterations |-> 0,
                 pre |-> weights, result |-> 0, error |-> "none"]
    /\ prevThink = NoThink
    /\ run = [base |-> weights, total |-> 0]
    /\ calls = 0

\* network.train(training_set_inputs, training_set_outputs, iterations)
TrainCall ==
    /\ calls < MaxCalls
    /\ \E iterations \in 0..MaxIter :
          LET r == Train(weights, training_inputs, training_outputs, iterations)
          IN  /\ weights' = r.weights
              /\ lastOp' = [op |-> "train", input |-> <<>>,
                            iterations |-> iterations, pre |-> weights,
                            result |-> 0,
                            error |-> IF r.panic THEN "panic" ELSE "none"]
              /\ run' = [run EXCEPT !.total = @ + iterations]
    /\ prevThink' = NoThink
    /\ calls' = calls + 1
    /\ UNCHANGED <<size, training_inputs, training_outputs>>

\* think that keeps the last input as the weights (think taking &mut self).
ThinkCall_Mutating ==
    /\ calls < MaxCalls
    /\ \E inputs \in Vectors :
          /\ lastOp' = [op |-> "think", input |-> inputs,
                        iterations |-> 0, pre |-> weights,
                        result |-> Think(weights, inputs), error |-> "none"]
          /\ weights' = [j \in 1..Len(weights) |->
                            IF j <= Len(inputs) THEN inputs[j] ELSE weights[j]]
    /\ prevThink' = IF lastOp.op = "think"
                    THEN [valid |-> TRUE, input |-> lastOp.input,
                          result |-> lastOp.result]
                    ELSE NoThink
    /\ calls' = calls + 1
    /\ UNCHANGED <<size, training_inputs, training_outputs, run>>

\* network.think(&inputs)
ThinkCall ==
    /\ calls < MaxCalls
    /\ \E inputs \in Vectors :
          /\ lastOp' = [op |-> "think", input |-> inputs,
                        iterations |-> 0, pre |-> weights,
                        result |-> Think(weights, inputs), error |-> "none"]
    /\ prevThink' = IF lastOp.op = "think"
                    THEN [valid |-> TRUE, input |-> lastOp.input,
                          result |-> lastOp.result]
                    ELSE NoThink
    /\ calls' = calls + 1
    /\ UNCHANGED <<weights, size, training_inputs, training_outputs, run>>

NetIdle ==
    /\ variant = "Binary"
    /\ param = 0
    /\ orig = <<>>
    /\ buf = <<>>
    /\ prevBuf = <<>>
    /\ ops = <<>>

Init == NetInit /\ NetIdle

Next ==
    \/ TrainCall /\ UNCHANGED actVars
    \/ ThinkCall /\ UNCHANGED actVars

Spec == Init /\ [][Next]_vars

(***************************************************************************)
(* Properties of the Network.                                              *)
(***************************************************************************)

\* Some example's input is not as long as the weight vector w.
Mismatch(ins, w) == \E i \in 1..Len(ins) : Len(ins[i]) # Len(w)

\* One target per example, every input as long as the weight vector w.
WellFormed(ins, outs, w) == Len(outs) = Len(ins) /\ ~Mismatch(ins, w)

\* C1: after any sequence of train and think calls the weight vector still
\* has the `size` elements it was constructed with.
WeightLengthFixed == Len(weights) = size

\* C2: a think call whose input is not as long as the weight vector reports
\* a DimensionMismatch error and leaves the weights unchanged.
ThinkRejectsMismatch ==
    (lastOp.op = "think" /\ Len(lastOp.input) # Len(lastOp.pre))
        => (lastOp.error = "DimensionMismatch" /\ weights = lastOp.pre)

\* C3: a train call of one round or more is all-or-nothing: with an example
\* whose input length differs from the weight vector's the call aborts and
\* the weights are as before it; otherwise, over one example or more, it
\* completes without an error.
TrainAllOrNothing ==
    (lastOp.op = "train" /\ lastOp.iterations >= 1)
        => IF Mismatch(training_inputs, lastOp.pre)
           THEN lastOp.error # "none" /\ weights = lastOp.pre
           ELSE Len(training_inputs) > 0 => lastOp.error = "none"

\* C4: train with iterations = 0 leaves the weight vector unchanged, whatever
\* the example set and the current weights.
TrainZeroIsIdentity ==
    (lastOp.op = "train" /\ lastOp.iterations = 0) => weights = lastOp.pre

\* C4 witness: a zero-iteration train call with a mismatched example set on
\* weights that an earlier call has trained.
TrainZeroWitness ==
    /\ lastOp.op = "train" /\ lastOp.iterations = 0
    /\ Mismatch(training_inputs, lastOp.pre)
    /\ lastOp.pre # run.base
    /\ Len(lastOp.pre) > 0

\* C5: think never modifies the weight vector, and two think calls in a row
\* with the same input return the same value.
ThinkIsPure ==
    lastOp.op = "think"
        => /\ weights = lastOp.pre
           /\ (prevThink.valid /\ prevThink.input = lastOp.input)
                 => prevThink.result = lastOp.result

\* C5 witness: two think calls in a row with the same non-zero input on a
\* non-empty weight vector.
ThinkIsPureWitness ==
    /\ lastOp.op = "think" /\ prevThink.valid
    /\ prevThink.input = lastOp.input
    /\ Len(weights) = MaxSize /\ Len(lastOp.input) = MaxSize
    /\ \A j \in 1..MaxSize : weights[j] # 0 /\ lastOp.input[j] # 0

\* The sum over the examples 1..n of input[j] * (target - output) * slope,
\* with output and slope taken from the weights w.
RECURSIVE AdjustmentSum(_, _, _, _, _)
AdjustmentSum(w, ins, outs, j, n) ==
    IF n = 0 THEN 0
    ELSE LET output == Think(w, ins[n])
             slope == SigmoidDerivative(output)
         IN  AdjustmentSum(w, ins, outs, j, n - 1)
                 + Mul(ins[n][j], Mul(outs[n] - output, slope))

\* The weights one round leaves, as the update rule states them.
ExpectedRound(w, ins, outs) ==
    [j \in 1..Len(w) |-> w[j] + AdjustmentSum(w, ins, outs, j, Len(ins))]

\* C6: one training round over well-formed examples sets every weight j to
\* old[j] + sum_i input[i][j] * (target[i] - output[i]) * slope[i], outputs
\* and slopes computed from the weights at the start of the round, the sum
\* neither averaged nor scaled.
TrainRoundFormula ==
    (/\ lastOp.op = "train" /\ lastOp.iterations = 1
     /\ WellFormed(training_inputs, training_outputs, lastOp.pre))
        => weights = ExpectedRound(lastOp.pre, training_inputs, training_outputs)

\* C6 witness: a one-round train call over two well-formed examples that
\* differ, on a unit of MaxSize weights, which changes a weight.
TrainRoundWitness ==
    /\ lastOp.op = "train" /\ lastOp.iterations = 1
    /\ WellFormed(training_inputs, training_outputs, lastOp.pre)
    /\ Len(training_inputs) >= 2 /\ training_inputs[1] # training_inputs[2]
    /\ Len(lastOp.pre) = MaxSize
    /\ \A j \in 1..MaxSize : weights[j] # lastOp.pre[j]

\* n rounds of the update rule, each from the weights the one before left.
RECURSIVE ExpectedRounds(_, _, _, _)
ExpectedRounds(w, ins, outs, n) ==
    IF n = 0 THEN w
    ELSE ExpectedRound(ExpectedRounds(w, ins, outs, n - 1), ins, outs)

\* C10: over a well-formed example set, the train calls made so far leave
\* the weights that one train call for the sum of their iteration counts
\* leaves from the weights at construction, and those are the rounds of the
\* update rule applied one after the other.
TrainCallsCompose ==
    WellFormed(training_inputs, training_outputs, run.base)
        => /\ weights = Train(run.base, training_inputs, training_outputs,
                              run.total).weights
           /\ weights = ExpectedRounds(run.base, training_inputs,
                                       training_outputs, run.total)

\* C10 witness: two train calls in a row, each of one round or more, over a
\* well-formed set of two examples, each call changing the weights.
TrainCallsComposeWitness ==
    /\ calls = 2 /\ lastOp.op = "train"
    /\ lastOp.iterations >= 1 /\ run.total > lastOp.iterations
    /\ WellFormed(training_inputs, training_outputs, run.base)
    /\ Len(training_inputs) = 2 /\ Len(run.base) = MaxSize
    /\ weights # lastOp.pre /\ lastOp.pre # run.base

(***************************************************************************)
(* Activation (src/activation.rs).  Each impl's activate and derivative    *)
(* visit the buffer element by element; SoftMax reads the whole buffer.    *)
(***************************************************************************)

Binary_activate(x) == IF x < 0 THEN 0 ELSE One
Binary_derivative(x) == 0

Linear_activate(rate, x) == Mul(rate, x)
Linear_derivative(rate, x) == rate

ReLU_activate(x) == IF x < 0 THEN 0 ELSE x
ReLU_derivative(x) == IF x < 0 THEN 0 ELSE One

LeakyReLU_activate(x) == IF x < 0 THEN Mul(Hundredth, x) ELSE x
LeakyReLU_derivative(x) == IF x < 0 THEN Hundredth ELSE One

\* ParamReLU::activate with LeakyReLU's fixed slope in place of self.0.
ParamReLU_activate_FixedSlope(alpha, x) == IF x < 0 THEN Mul(Hundredth, x) ELSE x

ParamReLU_activate(alpha, x) == IF x < 0 THEN Mul(alpha, x) ELSE x

\* ParamReLU::derivative with the test written `<=`.
ParamReLU_derivative_AtMost(alpha, x) == IF x <= 0 THEN alpha ELSE One

ParamReLU_derivative(alpha, x) == IF x < 0 THEN alpha ELSE One

ELU_activate(alpha, x) == IF x < 0 THEN Mul(alpha, Exp(x) - One) ELSE x
ELU_derivative(alpha, x) == IF x < 0 THEN alpha + x ELSE One

RECURSIVE SeqMax(_, _)
SeqMax(v, n) == IF n = 1 THEN v[1]
                ELSE LET m == SeqMax(v, n - 1) IN IF v[n] > m THEN v[n] ELSE m

RECURSIVE SeqSum(_, _)
SeqSum(v, n) == IF n = 0 THEN 0 ELSE SeqSum(v, n - 1) + v[n]

\* The magnitudes the model follows.
InRange(x) == 0 - MaxMagnitude * One <= x /\ x <= MaxMagnitude * One

\* SoftMax::activate: max is taken from every exponential, not from its
\* argument.  A sum of 0 makes every element a quotient by zero.
SoftMax_activate(v) ==
    LET max == IF Len(v) = 0 THEN 0 ELSE SeqMax(v, Len(v))
        k == [i \in 1..Len(v) |-> Exp(v[i]) - max]
        sum == SeqSum(k, Len(v))
    IN  IF sum = 0
        THEN [i \in 1..Len(v) |-> OutOfRange]
        ELSE [i \in 1..Len(v) |-> Div(k[i], sum)]

\* SoftMax::derivative
SoftMax_derivative(v) ==
    LET a == SoftMax_activate(v)
    IN  [i \in 1..Len(v) |->
            IF InRange(a[i]) THEN Mul(a[i], One - a[i]) ELSE OutOfRange]

\* <T as Activation>::activate(&self, v)
ActivateBuffer(t, p, v) ==
    IF t = "SoftMax" THEN SoftMax_activate(v)
    ELSE [i \in 1..Len(v) |->
            CASE t = "Binary" -> Binary_activate(v[i])
              [] t = "Linear" -> Linear_activate(p, v[i])
              [] t = "ReLU" -> ReLU_activate(v[i])
              [] t = "LeakyReLU" -> LeakyReLU_activate(v[i])
              [] t = "ParamReLU" -> ParamReLU_activate(p, v[i])
              [] t = "ELU" -> ELU_activate(p, v[i])]

\* <T as Activation>::derivative(&self, v)
DerivativeBuffer(t, p, v) ==
    IF t = "SoftMax" THEN SoftMax_derivative(v)
    ELSE [i \in 1..Len(v) |->
            CASE t = "Binary" -> Binary_derivative(v[i])
              [] t = "Linear" -> Linear_derivative(p, v[i])
              [] t = "ReLU" -> ReLU_derivative(v[i])
              [] t = "LeakyReLU" -> LeakyReLU_derivative(v[i])
              [] t = "ParamReLU" -> ParamReLU_derivative(p, v[i])
              [] t = "ELU" -> ELU_derivative(p, v[i])]

Variants == {"Binary", "Linear", "ReLU", "LeakyReLU", "ParamReLU", "ELU", "SoftMax"}
Parametric == {"Linear", "ParamReLU", "ELU"}
ReluFamily == {"ReLU", "LeakyReLU", "ParamReLU", "ELU"}
Piecewise == {"Binary", "Linear", "ReLU", "LeakyReLU", "ParamReLU"}

ParamValues == {0 - One, 0, Half, 2 * One}
BufValues == {0 - 2 * One, 0 - 1, 0, One, 3 * One}
Buffers == SeqsUpTo(BufValues, MaxBuf)

(***************************************************************************)
(* An Activation value and a caller's buffer as a state machine: orig is   *)
(* the buffer as the caller filled it, ops the calls made on it since,     *)
(* prevBuf the buffer before the last of them.  A buffer with an element   *)
(* outside the modelled range is not followed further.                     *)
(***************************************************************************)

BufInRange(v) == \A i \in 1..Len(v) : InRange(v[i])

ActInit ==
    /\ variant \in Variants
    /\ param \in IF variant \in Parametric THEN ParamValues ELSE {0}
    /\ orig \in Buffers
    /\ buf = orig
    /\ prevBuf = orig
    /\ ops = <<>>

\* activation.activate(&mut buf)
Activate ==
    /\ Len(ops) < MaxOps
    /\ BufInRange(buf)
    /\ buf' = ActivateBuffer(variant, param, buf)
    /\ prevBuf' = buf
    /\ ops' = Append(ops, "activate")
    /\ UNCHANGED <<variant, param, orig>>

\* activation.derivative(&mut buf)
Derivative ==
    /\ Len(ops) < MaxOps
    /\ BufInRange(buf)
    /\ buf' = DerivativeBuffer(variant, param, buf)
    /\ prevBuf' = buf
    /\ ops' = Append(ops, "derivative")
    /\ UNCHANGED <<variant, param, orig>>

ActIdle ==
    /\ weights = <<>>
    /\ size = 0
    /\ training_inputs = <<>>
    /\ training_outputs = <<>>
    /\ lastOp = [op |-> "new", input |-> <<>>, iterations |-> 0,
                 pre |-> <<>>, result |-> 0, error |-> "none"]
    /\ prevThink = NoThink
    /\ run = [base |-> <<>>, total |-> 0]
    /\ calls = 0

InitAct == ActInit /\ ActIdle

NextAct ==
    \/ Activate /\ UNCHANGED netVars
    \/ Derivative /\ UNCHANGED netVars

SpecAct == InitAct /\ [][NextAct]_vars

(***************************************************************************)
(* Properties of the activations.                                          *)
(***************************************************************************)

Abs(x) == IF x < 0 THEN 0 - x ELSE x

\* Rounding lets a sum of MaxBuf quotients differ from the exact sum by less
\* than this.
Tolerance == MaxBuf + 1

\* exp(x_i - max) / sum_k exp(x_k - max), v non-empty
ShiftedSoftMax(v) ==
    LET max == SeqMax(v, Len(v))
        e == [i \in 1..Len(v) |-> Exp(v[i] - max)]
    IN  [i \in 1..Len(v) |-> Div(e[i], SeqSum(e, Len(v)))]

\* C7: SoftMax activate on a non-empty buffer leaves values in [0,1] that sum
\* to 1 and equal exp(x_i - max) / sum_k exp(x_k - max).
SoftMaxNormalises ==
    (variant = "SoftMax" /\ ops = <<"activate">> /\ Len(orig) > 0)
        => /\ \A i \in 1..Len(buf) :
                 /\ buf[i] # OutOfRange
                 /\ 0 <= buf[i] /\ buf[i] <= One
                 /\ Abs(buf[i] - ShiftedSoftMax(orig)[i]) <= Tolerance
           /\ Abs(SeqSum(buf, Len(buf)) - One) <= Tolerance

\* C8: the derivative of ReLU, LeakyReLU, ParamReLU and ELU turns a buffer
\* element that is exactly 0 into 1.
ReluFamilyDerivativeAtZero ==
    (variant \in ReluFamily /\ Len(ops) > 0 /\ ops[Len(ops)] = "derivative")
        => \A i \in 1..Len(buf) : prevBuf[i] = 0 => buf[i] = One

\* C8 witness: a derivative call of a ParamReLU whose alpha is not 1, on a
\* buffer that holds a 0.
ReluFamilyAtZeroWitness ==
    /\ variant = "ParamReLU" /\ param # One
    /\ Len(ops) > 0 /\ ops[Len(ops)] = "derivative"
    /\ \E i \in 1..Len(buf) : prevBuf[i] = 0 /\ buf[i] = One

\* The derivative column of the table, read at x.
TableDerivative(t, p, x) ==
    CASE t = "Binary" -> 0
      [] t = "Linear" -> p
      [] t = "ReLU" -> IF x < 0 THEN 0 ELSE One
      [] t = "LeakyReLU" -> IF x < 0 THEN Hundredth ELSE One
      [] t = "ParamReLU" -> IF x < 0 THEN p ELSE One

\* C9 as claimed: activate then derivative on a one-element buffer that held
\* x leaves the table's derivative entry for x.
ForwardThenDerivativeAtInput ==
    (variant \in Piecewise /\ ops = <<"activate", "derivative">> /\ Len(orig) = 1)
        => buf[1] = TableDerivative(variant, param, orig[1])

\* The derivative column of the table, read at the value activate leaves:
\* never negative for ReLU, 0.01 * x for LeakyReLU and alpha * x for
\* ParamReLU when x < 0.
TableDerivativeAtActivated(t, p, x) ==
    CASE t = "Binary" -> 0
      [] t = "Linear" -> p
      [] t = "ReLU" -> One
      [] t = "LeakyReLU" -> IF x < 0 /\ Mul(Hundredth, x) < 0 THEN Hundredth ELSE One
      [] t = "ParamReLU" -> IF x < 0 /\ Mul(p, x) < 0 THEN p ELSE One

\* C9 as amended: activate then derivative on a one-element buffer that held
\* x leaves the table's derivative entry for the activated value.
ForwardThenDerivativeAtActivated ==
    (variant \in Piecewise /\ ops = <<"activate", "derivative">> /\ Len(orig) = 1)
        => buf[1] = TableDerivativeAtActivated(variant, param, orig[1])

\* C9 witness: activate then derivative of a ParamReLU with a negative alpha
\* on a buffer that held a negative x.
ForwardThenDerivativeWitness ==
    /\ variant = "ParamReLU" /\ param < 0
    /\ ops = <<"activate", "derivative">>
    /\ Len(orig) = 1 /\ orig[1] < 0 /\ buf[1] = One

====
